---- MODULE Spec2Model ----
(***************************************************************************)
(* A model of osmnx/utils_graph.py: the street-network graph transforms    *)
(* get_digraph, get_undirected (with _update_edge_keys, _is_duplicate_edge *)
(* and _is_same_geometry) and count_streets_per_node.                      *)
(*                                                                         *)
(* A networkx multigraph is modelled as its adjacency structure with the   *)
(* insertion order of every dict kept: G.adj[u] is the sequence of         *)
(* <neighbour, keydict> entries of node u, and a keydict is the sequence   *)
(* of <key, data> entries, so that every iteration of the code visits the  *)
(* edges in the order networkx would.  An edge attribute dict is a         *)
(* function from attribute names to values; an attribute is absent when    *)
(* its name is not in the function's domain.                               *)
(***************************************************************************)
EXTENDS Integers, Sequences, FiniteSets, TLC

VARIABLES G, op, order, out, out2, bundles

vars == <<G, op, order, out, out2, bundles>>

\* ----------------------------------------------------------------- bounds

\* the largest number of edges of an input graph
MaxEdges == 3
\* the largest number of points of a geometry given to _is_duplicate_edge
MaxPoints == 3

Nodes == {1, 2}
\* the ordered endpoint pairs that carry streets: both directions between
\* the two nodes, and a self-loop
Pairs == {<<1, 2>>, <<2, 1>>, <<1, 1>>}
\* the order in which the nodes were added to the graph
NodeOrder == <<1, 2>>
\* the edge keys of the input of the count
Keys == {0, 1}
\* the edge keys of the input of the undirected conversion: up to three
\* parallel streets from 1 to 2, two from 2 to 1, one loop at 1
StreetKeys(p) ==
    IF p = <<1, 2>> THEN {0, 1, 2} ELSE IF p = <<2, 1>> THEN {0, 1} ELSE {0}
Osmids == {55, 56}
\* the edge keys and the length attributes of the input of get_digraph
ParallelKeys == {0, 1, 2}
Lengths == {1, 2, 3}

\* the planar coordinates of a node (its x and y attributes)
NodeX(n) == n
NodeY(n) == 0
NodePoint(n) == <<NodeX(n), NodeY(n)>>
\* a point off the straight line between the nodes
ViaPoint == <<0, 5>>

\* a LineString is the sequence of its points
Straight(u, v) == <<NodePoint(u), NodePoint(v)>>
Bowed(u, v) == <<NodePoint(u), ViaPoint, NodePoint(v)>>
\* the geometries an input edge from u to v may carry: the straight line or
\* a bowed path from u to v; an edge of the loop carries none
Geometries(u, v) == IF u = v THEN {} ELSE {Straight(u, v), Bowed(u, v)}

\* an osmid attribute: a scalar, or a list of scalars
ScalarOsmid(x) == [list |-> FALSE, val |-> x]
ListOsmid(s) == [list |-> TRUE, val |-> s]

\* ------------------------------------------------------ sequence helpers

RECURSIVE Concat(_)
Concat(ss) ==
    IF ss = <<>> THEN <<>> ELSE Head(ss) \o Concat(Tail(ss))

RECURSIVE Reverse(_)
Reverse(s) ==
    IF s = <<>> THEN <<>> ELSE Append(Reverse(Tail(s)), Head(s))

Range(s) == {s[i] : i \in DOMAIN s}

RECURSIVE SetToSeq(_)
SetToSeq(S) ==
    IF S = {} THEN <<>>
    ELSE LET x == CHOOSE y \in S : TRUE IN <<x>> \o SetToSeq(S \ {x})

\* every sequence that lists each element of S exactly once
Orderings(S) ==
    {s \in [1 .. Cardinality(S) -> S] : \A i, j \in DOMAIN s : i # j => s[i] # s[j]}

\* --------------------------------------------- networkx adjacency dicts

KdHas(kd, k) == \E i \in DOMAIN kd : kd[i].key = k
KdGet(kd, k) == kd[CHOOSE i \in DOMAIN kd : kd[i].key = k].data
KdKeys(kd) == [i \in DOMAIN kd |-> kd[i].key]
\* keydict[key] = datadict, after datadict.update(attr) on the stored dict
KdPut(kd, k, d) ==
    IF KdHas(kd, k)
    THEN [i \in DOMAIN kd |->
            IF kd[i].key = k THEN [key |-> k, data |-> d @@ kd[i].data] ELSE kd[i]]
    ELSE Append(kd, [key |-> k, data |-> d])
KdDel(kd, k) == SelectSeq(kd, LAMBDA e : e.key # k)

RowHas(row, v) == \E i \in DOMAIN row : row[i].nbr = v
RowGet(row, v) ==
    IF RowHas(row, v) THEN row[CHOOSE i \in DOMAIN row : row[i].nbr = v].kd ELSE <<>>
RowPut(row, v, kd) ==
    IF RowHas(row, v)
    THEN [i \in DOMAIN row |-> IF row[i].nbr = v THEN [nbr |-> v, kd |-> kd] ELSE row[i]]
    ELSE Append(row, [nbr |-> v, kd |-> kd])
RowDel(row, v) == SelectSeq(row, LAMBDA e : e.nbr # v)

\* nx.MultiDiGraph() / nx.MultiGraph() with the nodes added and no edge
EmptyGraph(directed) ==
    [directed |-> directed, nodes |-> NodeOrder, adj |-> [n \in Nodes |-> <<>>]]

\* G[u][v]: the keydict of the edges from u to v
EdgeDict(g, u, v) == RowGet(g.adj[u], v)
HasEdge(g, u, v, k) == KdHas(EdgeDict(g, u, v), k)

\* G.add_edge(u, v, key=k, **d), of a MultiDiGraph or of a MultiGraph: an
\* undirected graph keeps one keydict under both adj[u][v] and adj[v][u]
AddEdge(g, u, v, k, d) ==
    LET kd == KdPut(EdgeDict(g, u, v), k, d)
        a1 == [g.adj EXCEPT ![u] = RowPut(@, v, kd)]
        a2 == IF g.directed THEN a1 ELSE [a1 EXCEPT ![v] = RowPut(@, u, kd)]
    IN  [g EXCEPT !.adj = a2]

\* G.remove_edge(u, v, key=k); an edge that is not there is left alone, as
\* remove_edges_from does
RemoveEdge(g, u, v, k) ==
    LET kd == KdDel(EdgeDict(g, u, v), k)
        put(row, w) == IF kd = <<>> THEN RowDel(row, w) ELSE RowPut(row, w, kd)
        a1 == [g.adj EXCEPT ![u] = put(@, v)]
        a2 == IF g.directed THEN a1 ELSE [a1 EXCEPT ![v] = put(@, u)]
    IN  IF HasEdge(g, u, v, k) THEN [g EXCEPT !.adj = a2] ELSE g

RECURSIVE RemoveEdgesFrom(_, _)
RemoveEdgesFrom(g, es) ==
    IF es = <<>> THEN g
    ELSE RemoveEdgesFrom(RemoveEdge(g, Head(es)[1], Head(es)[2], Head(es)[3]), Tail(es))

KdEdges(u, v, kd) ==
    [i \in DOMAIN kd |-> [u |-> u, v |-> v, key |-> kd[i].key, data |-> kd[i].data]]
RowEdges(u, row) ==
    Concat([i \in DOMAIN row |-> KdEdges(u, row[i].nbr, row[i].kd)])
\* has the node been iterated before position i of the node order
SeenBefore(g, i, n) == \E j \in 1 .. (i - 1) : g.nodes[j] = n

\* G.edges(keys=True, data=True): every edge once, in iteration order. A
\* MultiGraph reports an edge from the endpoint that is iterated first
Edges(g) ==
    Concat([i \in DOMAIN g.nodes |->
              RowEdges(g.nodes[i],
                       IF g.directed THEN g.adj[g.nodes[i]]
                       ELSE SelectSeq(g.adj[g.nodes[i]],
                                      LAMBDA e : ~SeenBefore(g, i, e.nbr)))])
EdgeSet(g) == Range(Edges(g))
NumEdges(g) == Len(Edges(g))
EdgeIds(g) == {<<e.u, e.v, e.key>> : e \in EdgeSet(g)}

RECURSIVE AddEdgesFrom(_, _)
\* H.add_edges_from(es)
AddEdgesFrom(g, es) ==
    IF es = <<>> THEN g
    ELSE AddEdgesFrom(AddEdge(g, Head(es).u, Head(es).v, Head(es).key, Head(es).data),
                      Tail(es))

\* ------------------------------------------------------------- results

NoResult == [kind |-> "none"]
Raised(exc) == [kind |-> "error", exc |-> exc]
Returned(val) == [kind |-> "value", val |-> val]

\* ------------------------------------------------- geometry and osmid

\* ls.xy: the tuple of the x coordinates and the tuple of the y coordinates
XY(ls) == <<[i \in DOMAIN ls |-> ls[i][1]], [i \in DOMAIN ls |-> ls[i][2]]>>

_is_same_geometry(ls1, ls2) ==
    LET geom1 == XY(ls1)
        geom2 == XY(ls2)
        geom1_r == [c \in DOMAIN geom1 |-> Reverse(geom1[c])]
    IN  geom1 = geom2 \/ geom1_r = geom2

\* a normalisation that keeps the list as it is
NormOsmidOrdered(o) == [set |-> o.list, val |-> o.val]

\* set(osmid) if the osmid is a list, otherwise the osmid itself
NormOsmid(o) ==
    IF o.list THEN [set |-> TRUE, val |-> Range(o.val)] ELSE [set |-> FALSE, val |-> o.val]
\* Python's ==: a set never equals a scalar
OsmidEq(n1, n2) == IF n1.set = n2.set THEN n1.val = n2.val ELSE FALSE

HasAttr(d, a) == a \in DOMAIN d

_is_duplicate_edge(data1, data2) ==
    LET osmid1 == NormOsmid(data1["osmid"])
        osmid2 == NormOsmid(data2["osmid"])
    IN  IF OsmidEq(osmid1, osmid2)
        THEN IF HasAttr(data1, "geometry") /\ HasAttr(data2, "geometry")
             THEN _is_same_geometry(data1["geometry"], data2["geometry"])
             ELSE IF ~HasAttr(data1, "geometry") /\ ~HasAttr(data2, "geometry")
                  THEN TRUE
                  ELSE FALSE
        ELSE FALSE

\* --------------------------------------------------- _update_edge_keys

\* str(u) <= str(v): the node ids of the model have one digit, for which the
\* order of the strings is the order of the numbers
StrLeq(u, v) == u <= v
\* "_".join(sorted([str(u), str(v)]) + [str(k)])
Uvk(u, v, k) == IF StrLeq(u, v) THEN <<u, v, k>> ELSE <<v, u, k>>

\* edges[mask].dropna(subset=["geometry"]): the rows whose uvk label occurs
\* more than once, without the rows that have no geometry
Dupes(g) ==
    LET edges == Edges(g)
        uvk(i) == Uvk(edges[i].u, edges[i].v, edges[i].key)
        mask(i) == \E j \in DOMAIN edges : j # i /\ uvk(j) = uvk(i)
        idx == {i \in DOMAIN edges : mask(i) /\ HasAttr(edges[i].data, "geometry")}
    IN  SelectSeq([i \in DOMAIN edges |-> [row |-> edges[i], keep |-> i \in idx]],
                  LAMBDA r : r.keep)

\* the rows of one group of dupes.groupby("uvk"), in row order
Group(dupes, label) ==
    SelectSeq(dupes, LAMBDA r : Uvk(r.row.u, r.row.v, r.row.key) = label)

\* different_streets: group.index[0] of every group in which some pair of
\* itertools.combinations(group["geometry"], 2) is not the same geometry
DifferentStreets(g) ==
    LET dupes == Dupes(g)
        labels == {Uvk(dupes[i].row.u, dupes[i].row.v, dupes[i].row.key) : i \in DOMAIN dupes}
        differs(grp) ==
            \E i, j \in DOMAIN grp :
                /\ i < j
                /\ ~_is_same_geometry(grp[i].row.data["geometry"],
                                      grp[j].row.data["geometry"])
        first(grp) == <<grp[1].row.u, grp[1].row.v, grp[1].row.key>>
    IN  {first(Group(dupes, l)) : l \in {m \in labels : differs(Group(dupes, m))}}

MaxOf(S) == CHOOSE x \in S : \A y \in S : y <= x

\* a new key that looks only at the keys from u to v
NewKeyOneDirection(g, u, v) ==
    MaxOf(Range(KdKeys(EdgeDict(g, u, v)))) + 1

\* new_key = max(list(G[u][v]) + list(G[v][u])) + 1
NewKey(g, u, v) ==
    MaxOf(Range(KdKeys(EdgeDict(g, u, v)) \o KdKeys(EdgeDict(g, v, u)))) + 1

\* one pass of the loop body: add the edge under the new key, remove the old
Rekey(g, u, v, k) ==
    RemoveEdge(AddEdge(g, u, v, NewKey(g, u, v), KdGet(EdgeDict(g, u, v), k)), u, v, k)

RECURSIVE RekeyAll(_, _)
RekeyAll(g, streets) ==
    IF streets = <<>> THEN g
    ELSE RekeyAll(Rekey(g, Head(streets)[1], Head(streets)[2], Head(streets)[3]),
                  Tail(streets))

\* graph_to_gdfs raises ValueError when the graph has no edges. streets is
\* the order in which set(different_streets) is iterated
_update_edge_keys(g, streets) ==
    IF NumEdges(g) < 1 THEN Raised("ValueError")
    ELSE Returned(RekeyAll(g, streets))

\* ------------------------------------------------------ get_undirected

\* d["from"] = u, d["to"] = v, and a straight geometry if there is none
Stamp(u, v, d) ==
    LET d1 == ("from" :> u) @@ ("to" :> v) @@ d
    IN  IF HasAttr(d1, "geometry") THEN d1 ELSE ("geometry" :> Straight(u, v)) @@ d1

\* the loop over G.edges(data=True): every data dict is updated in place
RECURSIVE StampAll(_, _)
StampAll(g, es) ==
    IF es = <<>> THEN g
    ELSE LET e == Head(es)
         IN  StampAll(AddEdge(g, e.u, e.v, e.key, Stamp(e.u, e.v, e.data)), Tail(es))
StampEdges(g) == StampAll(g, Edges(g))

RECURSIVE AddEdgesAutoKeys(_, _)
\* add_edges_from without the keys: MultiGraph.new_edge_key numbers the edges
AddEdgesAutoKeys(g, es) ==
    IF es = <<>> THEN g
    ELSE LET e == Head(es)
             used == Range(KdKeys(EdgeDict(g, e.u, e.v)))
             k == CHOOSE n \in Cardinality(used) .. 2 * Cardinality(used) :
                      /\ n \notin used
                      /\ \A m \in Cardinality(used) .. (n - 1) : m \in used
         IN  AddEdgesAutoKeys(AddEdge(g, e.u, e.v, k, e.data), Tail(es))

\* a MultiGraph built from G.edges(data=True), the keys of G dropped
ToMultiGraphAutoKeys(g) ==
    AddEdgesAutoKeys([EmptyGraph(FALSE) EXCEPT !.nodes = g.nodes], Edges(g))

\* H = nx.MultiGraph() with the nodes and the edges of G
ToMultiGraph(g) == AddEdgesFrom([EmptyGraph(FALSE) EXCEPT !.nodes = g.nodes], Edges(g))

\* the flags of an edge that is compared to itself too
FlaggedByWithSelf(h, e) ==
    LET kd == EdgeDict(h, e.u, e.v)
    IN  {<<e.u, e.v, kd[i].key>> :
            i \in {j \in DOMAIN kd : _is_duplicate_edge(e.data, kd[j].data)}}

\* the keys the edge (u, v, key) flags: every other key2 of H[u][v] whose
\* data is a duplicate of the edge's data
FlaggedBy(h, e) ==
    LET kd == EdgeDict(h, e.u, e.v)
    IN  {<<e.u, e.v, kd[i].key>> :
            i \in {j \in DOMAIN kd :
                      kd[j].key # e.key /\ _is_duplicate_edge(e.data, kd[j].data)}}

RECURSIVE FlagAll(_, _, _)
\* a loop that does not skip the edges already flagged
FlagAll(h, es, dups) ==
    IF es = <<>> THEN dups
    ELSE FlagAll(h, Tail(es), dups \cup FlaggedBy(h, Head(es)))

RECURSIVE DuplicateEdges(_, _, _)
\* duplicate_edges after the loop over H.edges(keys=True, data=True)
DuplicateEdges(h, es, dups) ==
    IF es = <<>> THEN dups
    ELSE LET e == Head(es)
         IN  IF <<e.u, e.v, e.key>> \in dups
             THEN DuplicateEdges(h, Tail(es), dups)
             ELSE DuplicateEdges(h, Tail(es), dups \cup FlaggedBy(h, e))

RemoveDuplicates(h) ==
    RemoveEdgesFrom(h, SetToSeq(DuplicateEdges(h, Edges(h), {})))

get_undirected(g, streets) ==
    LET keyed == _update_edge_keys(StampEdges(g), streets)
    IN  IF keyed.kind = "error" THEN keyed
        ELSE Returned(RemoveDuplicates(ToMultiGraph(keyed.val)))

\* --------------------------------------------------------- get_digraph

\* the (u, v) of the edges whose key is greater than 0
Parallels(g) == {<<e.u, e.v>> : e \in {x \in EdgeSet(g) : x.key > 0}}

\* max(G.get_edge_data(u, v).items(), key=lambda x: x[1][weight]): the first
\* item, in the order of the keydict, whose weight no item exceeds
MaxItemKey(kd, weight) ==
    LET i == CHOOSE a \in DOMAIN kd :
                /\ \A b \in DOMAIN kd : kd[b].data[weight] <= kd[a].data[weight]
                /\ \A b \in 1 .. (a - 1) : kd[b].data[weight] < kd[a].data[weight]
    IN  kd[i].key

\* to_remove: one edge for every (u, v) of the parallels
ToRemove(g, weight) ==
    {<<p[1], p[2], MaxItemKey(EdgeDict(g, p[1], p[2]), weight)>> : p \in Parallels(g)}

RECURSIVE MergeData(_)
\* DiGraph.add_edge of every edge of a keydict in turn: each updates the one
\* data dict of (u, v)
MergeData(kd) ==
    IF Len(kd) = 1 THEN kd[1].data
    ELSE kd[Len(kd)].data @@ MergeData(SubSeq(kd, 1, Len(kd) - 1))

\* nx.DiGraph(G): the nodes of G and one edge for every (u, v) that has edges
DiGraphOf(g) ==
    [nodes |-> g.nodes,
     edge |-> [p \in {q \in Nodes \X Nodes : RowHas(g.adj[q[1]], q[2])} |->
                 MergeData(EdgeDict(g, p[1], p[2]))]]

get_digraph(g, weight) ==
    Returned(DiGraphOf(RemoveEdgesFrom(g, SetToSeq(ToRemove(g, weight)))))

\* ---------------------------------------------- count_streets_per_node

\* a conversion that keeps the two directions of a street as two edges
ToUndirectedKeepBoth(g) ==
    AddEdgesAutoKeys([EmptyGraph(FALSE) EXCEPT !.nodes = g.nodes], Edges(g))

\* G.to_undirected(reciprocal=False): a MultiGraph with the nodes of G and
\* every edge (u, v, key, data) of G added in turn
ToUndirected(g) ==
    AddEdgesFrom([EmptyGraph(FALSE) EXCEPT !.nodes = g.nodes], Edges(g))

\* how often x occurs in the sequence s
CountIn(s, x) == Cardinality({i \in DOMAIN s : s[i] = x})

\* a count that keeps every parallel self-loop
CountEveryEdge(g, requested) ==
    LET es == Edges(ToUndirected(g))
        edges_flat == Concat([i \in DOMAIN es |-> <<es[i].u, es[i].v>>])
    IN  Returned([node \in requested |-> CountIn(edges_flat, node)])

\* requested is the set of node ids to count, or Nodes when nodes is None
count_streets_per_node(g, requested) ==
    LET G_undir == ToUndirected(g)
        es == Edges(G_undir)
        all_edges == [i \in DOMAIN es |-> <<es[i].u, es[i].v>>]
        all_unique_edges == Range(all_edges)
        non_self_loop_edges == SelectSeq(all_edges, LAMBDA e : ~(e[1] = e[2]))
        set_non_self_loop_edges == Range(non_self_loop_edges)
        self_loop_edges == SetToSeq({e \in all_unique_edges : e \notin set_non_self_loop_edges})
        edges == non_self_loop_edges \o self_loop_edges
        edges_flat == Concat(edges)
    IN  Returned([node \in requested |-> CountIn(edges_flat, node)])

\* ------------------------------------------------------- the state machine

Init ==
    /\ G = EmptyGraph(TRUE)
    /\ op = "none"
    /\ order = <<>>
    /\ out = NoResult
    /\ out2 = NoResult
    /\ bundles = <<>>

\* graph_from_gdfs adds one edge of the street network, with its attributes
AddStreetEdge ==
    /\ op = "none"
    /\ NumEdges(G) < MaxEdges
    /\ \E p \in Pairs : \E k \in StreetKeys(p), o \in Osmids :
       LET u == p[1]
           v == p[2]
       IN
         /\ ~HasEdge(G, u, v, k)
         /\ \/ G' = AddEdge(G, u, v, k, ("osmid" :> ScalarOsmid(o)) @@ ("length" :> 1))
            \/ \E geom \in Geometries(u, v) :
                 G' = AddEdge(G, u, v, k,
                              ("osmid" :> ScalarOsmid(o)) @@ ("length" :> 1)
                                @@ ("geometry" :> geom))
    /\ UNCHANGED <<op, order, out, out2, bundles>>

\* _update_edge_keys(G); the set of different streets is iterated in any order
UpdateEdgeKeys ==
    /\ op = "none"
    /\ \E streets \in Orderings(DifferentStreets(G)) :
         /\ order' = streets
         /\ out' = _update_edge_keys(G, streets)
    /\ op' = "_update_edge_keys"
    /\ UNCHANGED <<G, out2, bundles>>

\* get_undirected(G)
GetUndirected ==
    /\ op = "none"
    /\ \E streets \in Orderings(DifferentStreets(StampEdges(G))) :
         /\ order' = streets
         /\ out' = get_undirected(G, streets)
    /\ op' = "get_undirected"
    /\ UNCHANGED <<G, out2, bundles>>

\* get_undirected applied to the graph that get_undirected returned
GetUndirectedAgain ==
    /\ op = "get_undirected"
    /\ out.kind = "value"
    /\ \E streets \in Orderings(DifferentStreets(StampEdges(out.val))) :
         out2' = get_undirected(out.val, streets)
    /\ op' = "get_undirected_twice"
    /\ UNCHANGED <<G, order, out, bundles>>

\* count_streets_per_node(G, nodes), for all the nodes or for some of them
CountStreetsPerNode ==
    /\ op = "none"
    /\ \E requested \in (SUBSET Nodes) \ {{}} :
         out' = count_streets_per_node(G, requested)
    /\ op' = "count_streets_per_node"
    /\ UNCHANGED <<G, order, out2, bundles>>

\* get_digraph(G, weight="length")
GetDigraph ==
    /\ op = "none"
    /\ out' = get_digraph(G, "length")
    /\ op' = "get_digraph"
    /\ UNCHANGED <<G, order, out2, bundles>>

Next ==
    \/ AddStreetEdge
    \/ UpdateEdgeKeys
    \/ GetUndirected
    \/ GetUndirectedAgain
    \/ GetDigraph

Spec == Init /\ [][Next]_vars

\* the input of get_digraph: graph_from_gdfs adds one edge with its length
AddWeightedEdge ==
    /\ op = "none"
    /\ NumEdges(G) < MaxEdges
    /\ \E p \in Pairs, k \in ParallelKeys, w \in Lengths :
         /\ ~HasEdge(G, p[1], p[2], k)
         /\ G' = AddEdge(G, p[1], p[2], k, ("osmid" :> ScalarOsmid(55)) @@ ("length" :> w))
    /\ UNCHANGED <<op, order, out, out2, bundles>>

NextDigraph ==
    \/ AddWeightedEdge
    \/ GetDigraph

SpecDigraph == Init /\ [][NextDigraph]_vars

\* the input of count_streets_per_node: graph_from_gdfs adds one edge
AddCountedEdge ==
    /\ op = "none"
    /\ NumEdges(G) < MaxEdges
    /\ \E u \in Nodes, v \in Nodes, k \in Keys, o \in Osmids :
         /\ ~HasEdge(G, u, v, k)
         /\ G' = AddEdge(G, u, v, k, ("osmid" :> ScalarOsmid(o)) @@ ("length" :> 1))
    /\ UNCHANGED <<op, order, out, out2, bundles>>

NextCount ==
    \/ AddCountedEdge
    \/ CountStreetsPerNode

SpecCount == Init /\ [][NextCount]_vars

\* ------------------------------------------------------------ get_digraph

\* the edges of g from u to v
EdgesBetween(g, u, v) == {e \in EdgeSet(g) : e.u = u /\ e.v = v}

MinOf(S) == CHOOSE x \in S : \A y \in S : x <= y

\* C1: get_digraph gives every ordered pair (u, v) that has two or more
\* parallel edges in G exactly one edge u->v, whose length is the minimum
\* length of G's edges from u to v.
C1_ParallelEdgesKeepMinimum ==
    op = "get_digraph" =>
        /\ out.kind = "value"
        /\ \A u \in Nodes, v \in Nodes :
             Cardinality(EdgesBetween(G, u, v)) >= 2 =>
                 /\ <<u, v>> \in DOMAIN out.val.edge
                 /\ out.val.edge[<<u, v>>]["length"] =
                        MinOf({e.data["length"] : e \in EdgesBetween(G, u, v)})

\* C5: get_digraph leaves a non-parallel edge untouched: every ordered pair
\* (u, v), u = v included, that has exactly one edge in G, whatever its key,
\* has the edge u->v in the result with the attributes it has in G.
C5_SingleEdgesUntouched ==
    op = "get_digraph" =>
        /\ out.kind = "value"
        /\ \A e \in EdgeSet(G) :
             EdgesBetween(G, e.u, e.v) = {e} =>
                 /\ <<e.u, e.v>> \in DOMAIN out.val.edge
                 /\ out.val.edge[<<e.u, e.v>>] = e.data

\* C4: for a graph with nodes and no edge, get_undirected and get_digraph
\* each return, without raising, a graph with no edge and the input's nodes.
C4_NoEdgesReturnsNoEdges ==
    (op \in {"get_undirected", "get_digraph"} /\ NumEdges(G) = 0) =>
        /\ out.kind = "value"
        /\ Range(out.val.nodes) = Range(G.nodes)
        /\ IF op = "get_digraph" THEN DOMAIN out.val.edge = {}
           ELSE NumEdges(out.val) = 0

\* --------------------------------------------------------- get_undirected

\* the attributes of an input edge once it is stamped and has a geometry
Stamped(e) == Stamp(e.u, e.v, e.data)
SameEnds(e, f) == {e.u, e.v} = {f.u, f.v}
DataOf(g, id) == KdGet(EdgeDict(g, id[1], id[2]), id[3])
Without(d, names) == [a \in (DOMAIN d) \ names |-> d[a]]
Undirected == op = "get_undirected" /\ out.kind = "value"

\* C2: get_undirected drops no distinct street: every directed edge of the
\* input survives as an undirected edge of its own, with its osmid and
\* geometry, or is a duplicate, under the duplicate edge test, of a surviving
\* edge between the same endpoints.
C2_NoDistinctStreetDropped ==
    Undirected =>
        \A e \in EdgeSet(G) :
            \E h \in EdgeSet(out.val) :
                /\ SameEnds(h, e)
                /\ \/ h.data = Stamped(e)
                   \/ _is_duplicate_edge(Stamped(e), h.data)

\* C7 as stated: get_undirected applied to its own output returns the same
\* nodes, the same edges (endpoints and keys) and the same edge attributes.
C7_Idempotent ==
    op = "get_undirected_twice" =>
        /\ out2.kind = "value"
        /\ out2.val.nodes = out.val.nodes
        /\ EdgeIds(out2.val) = EdgeIds(out.val)
        /\ \A id \in EdgeIds(out.val) : DataOf(out2.val, id) = DataOf(out.val, id)

\* C7 as amended: get_undirected applied to its own output returns the same
\* nodes, the same edges (endpoints and keys) and the same edge attributes
\* except the from and to markers, which the second run stamps again, with
\* the endpoints in the order in which the undirected edge is iterated; the
\* second run re-keys no edge and removes no edge.
C7_IdempotentButFromTo ==
    op = "get_undirected_twice" =>
        /\ out2.kind = "value"
        /\ out2.val.nodes = out.val.nodes
        /\ EdgeIds(out2.val) = EdgeIds(out.val)
        /\ \A id \in EdgeIds(out.val) :
             /\ Without(DataOf(out2.val, id), {"from", "to"})
                    = Without(DataOf(out.val, id), {"from", "to"})
             /\ DataOf(out2.val, id)["from"] = id[1]
             /\ DataOf(out2.val, id)["to"] = id[2]

\* a second run on a graph of two edges from which the first run, having
\* re-keyed an edge, removed a duplicate
C7_Witness ==
    /\ op = "get_undirected_twice"
    /\ order # <<>>
    /\ NumEdges(out.val) = 2
    /\ NumEdges(G) = 3
    /\ EdgeIds(out2.val) = EdgeIds(out.val)

\* every edge has another edge in the opposite direction with an equivalent
\* geometry
Reciprocated(g) ==
    \A e \in EdgeSet(g) :
        \E r \in EdgeSet(g) :
            /\ r # e
            /\ r.u = e.v
            /\ r.v = e.u
            /\ _is_same_geometry(Stamped(e)["geometry"], Stamped(r)["geometry"])

\* no ordered pair (u, v) has two edges
NoParallelEdges(g) == \A e \in EdgeSet(g) : EdgesBetween(g, e.u, e.v) = {e}

\* C8 as stated: the result has at most as many edges as the input, and at
\* least half as many (rounded up) when every directed edge has a reciprocal
\* edge with an equivalent geometry.
C8_Conservation ==
    Undirected =>
        /\ NumEdges(out.val) <= NumEdges(G)
        /\ Reciprocated(G) => 2 * NumEdges(out.val) >= NumEdges(G)

\* C8 as amended: the result has at most as many edges as the input, and at
\* least half as many (rounded up) when every directed edge has a reciprocal
\* edge with an equivalent geometry and no ordered pair (u, v) has parallel
\* edges.
C8_ConservationNoParallel ==
    Undirected =>
        /\ NumEdges(out.val) <= NumEdges(G)
        /\ (Reciprocated(G) /\ NoParallelEdges(G)) =>
               2 * NumEdges(out.val) >= NumEdges(G)

\* a two-way street whose directions have different keys, merged into one edge
C8_Witness ==
    /\ Undirected
    /\ Reciprocated(G)
    /\ NoParallelEdges(G)
    /\ EdgeIds(G) = {<<1, 2, 1>>, <<2, 1, 0>>}
    /\ NumEdges(out.val) = 1

\* the MultiGraph H before the deduplication pass
PreDedup == ToMultiGraph(_update_edge_keys(StampEdges(G), order).val)

\* the edges of h between the endpoints of e that are duplicates of e
DupClass(h, e) ==
    {x \in EdgeSet(h) : x.u = e.u /\ x.v = e.v /\ _is_duplicate_edge(e.data, x.data)}

\* the edge of S that the iteration of h's edges visits first
FirstVisited(h, S) ==
    LET es == Edges(h)
        i == CHOOSE a \in DOMAIN es :
                 es[a] \in S /\ \A b \in 1 .. (a - 1) : es[b] \notin S
    IN  es[i]

Survives(x) == HasEdge(out.val, x.u, x.v, x.key)

\* of every class of duplicates of h, the first visited edge is the one edge
\* that is in the result, with its attributes
FirstOfEveryClassSurvives(h) ==
    \A e \in EdgeSet(h) :
        LET class == DupClass(h, e)
            first == FirstVisited(h, class)
        IN  /\ {x \in class : Survives(x)} = {first}
            /\ DataOf(out.val, <<first.u, first.v, first.key>>) = first.data

\* the input is the two directions (1, 2, k), (2, 1, k) of one street, with
\* one osmid and the geometry of the one the reverse of the other's
ScenarioA ==
    \E e \in EdgeSet(G), r \in EdgeSet(G) :
        /\ EdgeSet(G) = {e, r}
        /\ e.u = 1 /\ e.v = 2 /\ r.u = 2 /\ r.v = 1 /\ r.key = e.key
        /\ e.data["osmid"] = r.data["osmid"]
        /\ Stamped(r)["geometry"] = Reverse(Stamped(e)["geometry"])

\* C9: of the undirected edges between the same endpoints that are duplicates
\* of each other, however many, exactly one survives the deduplication pass:
\* the one that the iteration of the edges visits first. The two directions
\* (1, 2, k), (2, 1, k) of one street give exactly one edge between 1 and 2.
C9_FirstVisitedDuplicateSurvives ==
    Undirected =>
        /\ FirstOfEveryClassSurvives(PreDedup)
        /\ ScenarioA => NumEdges(out.val) = 1

\* three edges that are duplicates of each other, of which one survives
C9_Witness ==
    /\ Undirected
    /\ NumEdges(out.val) = 1
    /\ \E e \in EdgeSet(PreDedup) : Cardinality(DupClass(PreDedup, e)) = 3

\* ------------------------------------------------------ _update_edge_keys

EveryEdgeHasGeometry(g) == \A e \in EdgeSet(g) : HasAttr(e.data, "geometry")

\* the keys of the edges of g between u and v, in either direction
KeysBetween(g, u, v) == {e.key : e \in {x \in EdgeSet(g) : SameEnds(x, [u |-> u, v |-> v])}}

\* C10: after _update_edge_keys on a graph whose edges all have a geometry,
\* two edges with the same unordered endpoints and the same key have
\* equivalent geometries; every re-keyed edge has a key greater than every
\* key used between its endpoints in either direction and keeps its
\* attributes; and the number of edges is unchanged.
C10_RekeyingSafety ==
    (op = "_update_edge_keys" /\ out.kind = "value" /\ EveryEdgeHasGeometry(G)) =>
        /\ NumEdges(out.val) = NumEdges(G)
        /\ \A e \in EdgeSet(out.val), f \in EdgeSet(out.val) :
             (SameEnds(e, f) /\ e.key = f.key) =>
                 _is_same_geometry(e.data["geometry"], f.data["geometry"])
        /\ \A i \in DOMAIN order :
             LET s == order[i]
             IN  /\ ~HasEdge(out.val, s[1], s[2], s[3])
                 /\ \E e \in EdgesBetween(out.val, s[1], s[2]) :
                      /\ \A k \in KeysBetween(G, s[1], s[2]) : e.key > k
                      /\ e.data = DataOf(G, s)

\* the divided road (1, 2, 0), (2, 1, 0) with a third street (2, 1, 1): the
\* edge (1, 2, 0) is re-keyed to 2
C10_Witness ==
    /\ op = "_update_edge_keys"
    /\ out.kind = "value"
    /\ EveryEdgeHasGeometry(G)
    /\ order = <<(<<1, 2, 0>>)>>
    /\ HasEdge(G, 2, 1, 1)
    /\ HasEdge(out.val, 1, 2, 2)

\* ------------------------------------------------ count_streets_per_node

\* the node has an incident edge, and every edge incident to it is a self-loop
OnlySelfLoops(g, n) ==
    /\ \E e \in EdgeSet(g) : e.u = n /\ e.v = n
    /\ \A e \in EdgeSet(g) : (e.u = n \/ e.v = n) => (e.u = n /\ e.v = n)

\* C3 as stated: a node whose only incident edges are self-loops, one or two
\* parallel ones, is counted 1.
C3_SelfLoopCountsOnce ==
    op = "count_streets_per_node" =>
        \A n \in DOMAIN out.val : OnlySelfLoops(G, n) => out.val[n] = 1

\* C3 as amended: a node whose only incident edges are self-loops, one or
\* two parallel ones, is counted 2: the loop meets the node with both of its
\* ends, and parallel self-loops are counted as one loop (never 4).
C3_SelfLoopCountsBothEnds ==
    op = "count_streets_per_node" =>
        \A n \in DOMAIN out.val : OnlySelfLoops(G, n) => out.val[n] = 2

\* two parallel self-loops at node 1 and nothing else there, counted
C3_Witness ==
    /\ op = "count_streets_per_node"
    /\ 1 \in DOMAIN out.val
    /\ OnlySelfLoops(G, 1)
    /\ Cardinality(EdgesBetween(G, 1, 1)) = 2
    /\ out.val[1] = 2

\* e and r are the two directions of one street between different nodes
ReciprocalPair(e, r) ==
    /\ e.u # e.v
    /\ r.u = e.v
    /\ r.v = e.u
    /\ _is_duplicate_edge(e.data, r.data)

\* the counts of the requested nodes in the graph without the edge r
CountsWithout(g, r, requested) ==
    count_streets_per_node(RemoveEdge(g, r.u, r.v, r.key), requested).val

\* C6 as stated: for every reciprocal pair (u, v, k), (v, u, k') of one
\* street, whatever the keys, the counts equal the counts of the graph that
\* has only (u, v, k) of the two.
C6_TwoWayCountsAsOneWay ==
    op = "count_streets_per_node" =>
        \A e \in EdgeSet(G), r \in EdgeSet(G) :
            ReciprocalPair(e, r) => out.val = CountsWithout(G, r, DOMAIN out.val)

\* C6 as amended: for every reciprocal pair (u, v, k), (v, u, k) of one
\* street that has the same key in both directions, the counts equal the
\* counts of the graph that has only (u, v, k) of the two.
C6_SameKeyTwoWayCountsAsOneWay ==
    op = "count_streets_per_node" =>
        \A e \in EdgeSet(G), r \in EdgeSet(G) :
            (ReciprocalPair(e, r) /\ r.key = e.key) =>
                out.val = CountsWithout(G, r, DOMAIN out.val)

\* the two-way street (1, 2, 0), (2, 1, 0) alone, counted once at each end
C6_Witness ==
    /\ op = "count_streets_per_node"
    /\ EdgeIds(G) = {<<1, 2, 0>>, <<2, 1, 0>>}
    /\ \E e \in EdgeSet(G), r \in EdgeSet(G) : ReciprocalPair(e, r) /\ r.key = e.key
    /\ DOMAIN out.val = Nodes
    /\ out.val[1] = 1
    /\ out.val[2] = 1

\* ------------------------------------------------------ _is_duplicate_edge

\* the points of the geometries, the geometries and the osmids of the edge
\* data given to _is_duplicate_edge
BundlePoints == {NodePoint(1), NodePoint(2), ViaPoint}
BundleGeometries == UNION {[1 .. n -> BundlePoints] : n \in 2 .. MaxPoints}
BundleOsmids ==
    {ScalarOsmid(55), ScalarOsmid(56), ListOsmid(<<55>>),
     ListOsmid(<<55, 56>>), ListOsmid(<<56, 55>>)}
Bundles ==
    {("osmid" :> o) : o \in BundleOsmids}
        \cup {("osmid" :> o) @@ ("geometry" :> g) : o \in BundleOsmids, g \in BundleGeometries}

\* two edge data dicts, as get_undirected hands them to _is_duplicate_edge
InitDup ==
    /\ G = EmptyGraph(FALSE)
    /\ op = "none"
    /\ order = <<>>
    /\ out = NoResult
    /\ out2 = NoResult
    /\ bundles \in Bundles \X Bundles

\* _is_duplicate_edge(data1, data2), and the call with the arguments swapped
IsDuplicateEdge ==
    /\ op = "none"
    /\ out' = Returned(_is_duplicate_edge(bundles[1], bundles[2]))
    /\ out2' = Returned(_is_duplicate_edge(bundles[2], bundles[1]))
    /\ op' = "_is_duplicate_edge"
    /\ UNCHANGED <<G, order, bundles>>

NextDup == IsDuplicateEdge

SpecDup == InitDup /\ [][NextDup]_vars

\* the osmids are equal once normalized: two lists with the same elements in
\* any order, or two equal scalars
SameOsmid(o1, o2) ==
    \/ o1.list /\ o2.list /\ Range(o1.val) = Range(o2.val)
    \/ ~o1.list /\ ~o2.list /\ o1.val = o2.val

\* the point sequences are identical, in the original or in reversed order
SamePoints(g1, g2) == g1 = g2 \/ g1 = Reverse(g2)

\* C11: _is_duplicate_edge(d1, d2) is true iff the normalized osmids are
\* equal and either both have a geometry and the point sequences are
\* identical in original or reversed order, or neither has a geometry; it is
\* false when the osmids differ and when exactly one has a geometry; and
\* _is_duplicate_edge(d1, d2) = _is_duplicate_edge(d2, d1).
C11_DuplicateEdgeTest ==
    op = "_is_duplicate_edge" =>
        LET d1 == bundles[1]
            d2 == bundles[2]
            g1 == HasAttr(d1, "geometry")
            g2 == HasAttr(d2, "geometry")
        IN  /\ out.val <=>
                 /\ SameOsmid(d1["osmid"], d2["osmid"])
                 /\ \/ g1 /\ g2 /\ SamePoints(d1["geometry"], d2["geometry"])
                    \/ ~g1 /\ ~g2
            /\ ~SameOsmid(d1["osmid"], d2["osmid"]) => ~out.val
            /\ (g1 # g2) => ~out.val
            /\ out2.val = out.val

\* list osmids in different orders and a geometry that is the reverse of the
\* other and not the same: a duplicate, in both argument orders
C11_Witness ==
    /\ op = "_is_duplicate_edge"
    /\ bundles[1]["osmid"] = ListOsmid(<<55, 56>>)
    /\ bundles[2]["osmid"] = ListOsmid(<<56, 55>>)
    /\ HasAttr(bundles[1], "geometry")
    /\ HasAttr(bundles[2], "geometry")
    /\ bundles[1]["geometry"] # bundles[2]["geometry"]
    /\ bundles[2]["geometry"] = Reverse(bundles[1]["geometry"])
    /\ out.val
    /\ out2.val

====
